---- MODULE Spec2Model ----
(***************************************************************************)
(* Model of IssueHandler (src/features/issues/handlers/issue.handler.ts):  *)
(* eight handlers that validate their arguments, make one call on the      *)
(* GraphQL client, inspect the reply and build a response.  One invocation *)
(* is modelled at a time (the handler keeps no state between invocations): *)
(* the handler runs up to its await, the client replies, the handler       *)
(* resumes and settles.                                                    *)
(*                                                                         *)
(* JavaScript values are records [t, n, s]: t is the typeof tag, n the     *)
(* numeric value, s the text of a string (a sequence of characters, or one *)
(* opaque word) or the elements of an array.                               *)
(***************************************************************************)
EXTENDS Integers, Sequences, FiniteSets, TLC

\* ---------------------------------------------------------------- bounds
\* how many optional inputs one argument object supplies at most
MaxSetFields == 2
\* longest list of ids a caller passes
MaxIds == 3

\* ---------------------------------------------------------------- values
Undef == [t |-> "undefined", n |-> 0, s |-> <<>>]
Null == [t |-> "null", n |-> 0, s |-> <<>>]
Num(k) == [t |-> "number", n |-> k, s |-> <<>>]
NaN == [t |-> "number", n |-> 0, s |-> <<"NaN">>]
Str(cs) == [t |-> "string", n |-> 0, s |-> cs]
Arr(es) == [t |-> "array", n |-> 0, s |-> es]
Obj == [t |-> "object", n |-> 0, s |-> <<>>]

\* JavaScript truthiness, as used by `if (x)`, `!x` and `x || y`
Truthy(v) ==
  CASE v.t = "undefined" -> FALSE
    [] v.t = "null" -> FALSE
    [] v.t = "number" -> v.n # 0 /\ v.s = <<>>
    [] v.t = "string" -> Len(v.s) > 0
    [] OTHER -> TRUE

\* x || y
OrElse(x, y) == IF Truthy(x) THEN x ELSE y

\* Array.isArray(x)
IsArray(v) == v.t = "array"

Digits == {"0", "1", "2", "3", "4", "5", "6", "7", "8", "9"}

DigitVal(c) ==
  CASE c = "0" -> 0 [] c = "1" -> 1 [] c = "2" -> 2 [] c = "3" -> 3
    [] c = "4" -> 4 [] c = "5" -> 5 [] c = "6" -> 6 [] c = "7" -> 7
    [] c = "8" -> 8 [] c = "9" -> 9

RECURSIVE DecimalValue(_)
DecimalValue(cs) ==
  IF cs = <<>> THEN 0
  ELSE 10 * DecimalValue(SubSeq(cs, 1, Len(cs) - 1)) + DigitVal(cs[Len(cs)])

\* Number(x) for the values the numeric inputs take: a number is itself, the
\* empty string is 0, a string of decimal digits is its value, any other
\* string is NaN.
ToNumber(v) ==
  CASE v.t = "number" -> v
    [] v.t = "string" ->
         IF \A i \in 1..Len(v.s) : v.s[i] \in Digits
         THEN Num(DecimalValue(v.s))
         ELSE NaN
    [] v.t = "null" -> Num(0)
    [] OTHER -> NaN

\* ---------------------------------------------------------------- inputs
RECURSIVE SeqsUpTo(_, _)
SeqsUpTo(S, k) ==
  IF k = 0 THEN {<<>>}
  ELSE LET shorter == SeqsUpTo(S, k - 1)
       IN shorter \cup {Append(q, x) : q \in {r \in shorter : Len(r) = k - 1}, x \in S}

\* numeric inputs that arrive as text: "", "2", "10", "a", "2a"
NumericTexts ==
  {Str(<<>>), Str(<<"2">>), Str(<<"1", "0">>), Str(<<"a">>), Str(<<"2", "a">>)}
Ids == {"A", "B", "C"}
IdLists == {Arr(es) : es \in SeqsUpTo(Ids, MaxIds)}
\* the issues the backend may return, in the order it returns them
NodeLists == {<<>>, <<"N1">>, <<"N2">>, <<"N1", "N2">>, <<"N2", "N1">>}

\* what a required input may hold
RequiredVals == {Undef, Null, Str(<<"a">>)}
\* what a list input may hold (a string stands for "not an array")
ListVals == {Undef, Null, Str(<<"a">>)} \cup IdLists
\* optional inputs, by kind, when they are supplied
TextVals == {Null, Str(<<>>), Str(<<"a">>)}
NumericVals == {Null, Num(0), Num(2)} \cup NumericTexts
SmallListVals == {Null, Arr(<<>>), Arr(<<"A">>)}

CreateFields == {"title", "description", "teamId"}
SearchFields ==
  {"query", "filter.identifier", "filter.project.id.eq", "teamIds",
   "assigneeIds", "states", "priority", "first", "after", "orderBy"}
EditFields ==
  {"title", "description", "stateId", "priority", "assigneeId", "labelIds",
   "projectId", "projectMilestoneId", "estimate", "dueDate", "parentId",
   "sortOrder"}
AllFields ==
  CreateFields \cup SearchFields \cup EditFields
    \cup {"issues", "issueIds", "update", "identifiers", "identifier", "id",
          "issueId"}

NoArgs == [f \in AllFields |-> Undef]

\* values an optional field may take when supplied
Domain(f) ==
  CASE f \in {"priority", "estimate", "sortOrder"} -> NumericVals
    [] f \in {"teamIds", "assigneeIds", "states", "labelIds"} -> SmallListVals
    [] f = "first" -> {Null, Num(0), Num(10)}
    [] OTHER -> TextVals

\* argument objects that extend base by supplying every field of S
RECURSIVE Assign(_, _)
Assign(base, S) ==
  IF S = {} THEN {base}
  ELSE LET f == CHOOSE x \in S : TRUE
       IN UNION {Assign([base EXCEPT ![f] = v], S \ {f}) : v \in Domain(f)}

\* the sets of at most k of the optional fields F
Choices(F, k) == {T \in SUBSET F : Cardinality(T) <= k}

\* argument objects with each required field of R drawn from vals
WithRequired(R, vals) ==
  {[f \in AllFields |-> IF f \in R THEN w[f] ELSE Undef] : w \in [R -> vals]}

\* ---------------------------------------------------------------- errors
\* An Error carries the failure class of the design's taxonomy, its message
\* text, the value the message interpolates and the field names it lists.
Err(type, text, ref, missing) ==
  [type |-> type, text |-> text, ref |-> ref, missing |-> missing]
NoError == Err("none", "", Undef, {})

\* ---------------------------------------------------------------- client
\* A clause of the outbound filter: its comparison shape and its operand.
Absent == [shape |-> "absent", v |-> Undef]
Verbatim(x) == [shape |-> "verbatim", v |-> x]
InListOf(x) == [shape |-> "in:[x]", v |-> x]
In(x) == [shape |-> "in:x", v |-> x]
IdEq(x) == [shape |-> "id.eq:x", v |-> x]
IdIn(x) == [shape |-> "id.in:x", v |-> x]
NameIn(x) == [shape |-> "name.in:x", v |-> x]
Eq(x) == [shape |-> "eq:x", v |-> x]

FilterKeys ==
  {"identifier", "search", "project", "team", "assignee", "state", "priority"}
NoFilter == [k \in FilterKeys |-> Absent]

\* One call on the GraphQL client: the method and its arguments.  input is the
\* object argument (keys holding Undef are not keys of it), target the id or
\* list argument, update the patch object of a bulk update.
Call(method, input, target, update, filter, first, after, orderBy) ==
  [method |-> method, input |-> input, target |-> target, update |-> update,
   filter |-> filter, first |-> first, after |-> after, orderBy |-> orderBy]

\* What the client call comes back with: it throws, or it returns a result
\* that may lack its top-level key (malformed); otherwise success is the
\* mutation's flag, hasPayload says whether issue/issues/nodes is there,
\* nodes are the issues it carries and changed is how many records the
\* backend really changed.
Reply(kind, success, hasPayload, nodes, changed) ==
  [kind |-> kind, success |-> success, hasPayload |-> hasPayload,
   nodes |-> nodes, changed |-> changed]
NoReply == Reply("none", FALSE, FALSE, <<>>, 0)
Throws == Reply("throw", FALSE, FALSE, <<>>, 0)
Malformed == Reply("malformed", FALSE, FALSE, <<>>, 0)

\* {issueCreate|issueUpdate: {success, issue}}
IssueReplies ==
  {Throws, Malformed}
    \cup {Reply("result", ok, FALSE, <<>>, 0) : ok \in BOOLEAN}
    \cup {Reply("result", ok, TRUE, <<n>>, 0) : ok \in BOOLEAN, n \in {"N1"}}
\* {issueBatchCreate: {success, issues}}
BatchReplies ==
  {Throws, Malformed}
    \cup {Reply("result", ok, FALSE, <<>>, 0) : ok \in BOOLEAN}
    \cup {Reply("result", ok, TRUE, ns, 0) : ok \in BOOLEAN, ns \in NodeLists}
\* {issueUpdate: {success}} for a multi-id request
BulkReplies ==
  {Throws, Malformed}
    \cup {Reply("result", ok, FALSE, <<>>, c) : ok \in BOOLEAN, c \in 0..MaxIds}
\* {issues: {nodes, pageInfo}}
SearchReplies ==
  {Throws, Malformed, Reply("result", TRUE, FALSE, <<>>, 0)}
    \cup {Reply("result", TRUE, TRUE, ns, 0) : ns \in NodeLists}
\* {issueDelete: {success}}
DeleteReplies ==
  {Throws, Malformed} \cup {Reply("result", ok, FALSE, <<>>, 0) : ok \in BOOLEAN}

\* ---------------------------------------------------------------- responses
\* The response a handler builds: its kind, message text, the count and the
\* value the text interpolates, the issues it carries, and the client result
\* it wraps.
Envelope(kind, text, count, ref, nodes, result) ==
  [kind |-> kind, text |-> text, count |-> count, ref |-> ref,
   nodes |-> nodes, result |-> result]
NoEnvelope == Envelope("none", "", 0, Undef, <<>>, NoReply)

\* BaseHandler.createResponse(text)
CreateResponse(text, count, ref, nodes) ==
  Envelope("text", text, count, ref, nodes, NoReply)

\* BaseHandler.createJsonResponse(data)
CreateJsonResponse(text, nodes, result) ==
  Envelope("json", text, 0, Undef, nodes, result)

\* BaseHandler.handleError(error, operation): the failure response, annotated
\* with the operation name
HandleError(error, operation) ==
  [operation |-> operation, error |-> error]
NoFailure == HandleError(NoError, "")

\* BaseHandler.validateRequiredParams(args, required): the required fields
\* that are undefined or null are reported by name
MissingParams(a, required) == {f \in required : a[f] \in {Undef, Null}}

ValidateRequiredParams(a, required) ==
  IF MissingParams(a, required) = {} THEN NoError
  ELSE Err("ValidationError", "Missing required parameters", Undef,
           MissingParams(a, required))

\* BaseHandler.verifyAuth(): fails when no authenticated client is available
VerifyAuth(hasClient) ==
  IF hasClient THEN NoError
  ELSE Err("AuthError", "Not authenticated", Undef, {})

\* the first error of a sequence of checks, in program order
FirstError(checks) ==
  IF \E i \in 1..Len(checks) : checks[i] # NoError
  THEN checks[CHOOSE i \in 1..Len(checks) :
                /\ checks[i] # NoError
                /\ \A j \in 1..(i - 1) : checks[j] = NoError]
  ELSE NoError

\* ---------------------------------------------------------------- state
VARIABLES
  hasClient,  \* whether verifyAuth finds an authenticated client
  pc,         \* "idle", "awaiting" (suspended on the client call), "done"
  op,         \* the operation invoked
  args,       \* its argument object
  calls,      \* the client calls made during this invocation, in order
  reply,      \* what the client call came back with
  failure,    \* what the catch block handed to handleError
  value,      \* the response the handler returned
  ending      \* how the invocation ended
vars == <<hasClient, pc, op, args, calls, reply, failure, value, ending>>

UpdatedAt == Str(<<"updatedAt">>)
TypeError == Err("TypeError", "Cannot read properties of undefined", Undef, {})
ClientError == Err("ClientError", "thrown by the client call", Undef, {})

\* ---------------------------------------------------------------- createIssue
CreateIssueArgs == WithRequired(CreateFields, RequiredVals)

CreateIssuePre(c, a) ==
  FirstError(<<VerifyAuth(c),
               ValidateRequiredParams(a, {"title", "description", "teamId"})>>)

CreateIssueCall(a) ==
  Call("createIssue", a, Undef, Undef, NoFilter, Undef, Undef, Undef)

\* variant: only the success flag is looked at, not the issue payload
CreateIssuePost_OnlyFlag(a, r) ==
  IF r.kind = "malformed" THEN TypeError
  ELSE IF ~r.success
       THEN Err("BackendError", "Failed to create issue", Undef, {})
       ELSE NoError

CreateIssuePost(a, r) ==
  IF r.kind = "malformed" THEN TypeError
  ELSE IF ~r.success \/ ~r.hasPayload
       THEN Err("BackendError", "Failed to create issue", Undef, {})
       ELSE NoError

CreateIssueResult(a, r) == CreateJsonResponse("issueCreate", r.nodes, NoReply)

\* ---------------------------------------------------------------- createIssues
CreateIssuesArgs == WithRequired({"issues"}, ListVals)

\* variant: the Array.isArray check is left out
CreateIssuesPre_NoArrayCheck(c, a) ==
  FirstError(<<VerifyAuth(c), ValidateRequiredParams(a, {"issues"})>>)

CreateIssuesPre(c, a) ==
  FirstError(<<VerifyAuth(c),
               ValidateRequiredParams(a, {"issues"}),
               IF IsArray(a["issues"]) THEN NoError
               ELSE Err("ValidationError", "Issues parameter must be an array",
                        Undef, {})>>)

CreateIssuesCall(a) ==
  Call("createIssues", NoArgs, a["issues"], Undef, NoFilter, Undef, Undef, Undef)

CreateIssuesPost(a, r) ==
  IF r.kind = "malformed" THEN TypeError
  ELSE IF ~r.success
       THEN Err("BackendError", "Failed to create issues", Undef, {})
       ELSE IF ~r.hasPayload THEN TypeError ELSE NoError

CreateIssuesResult(a, r) ==
  CreateResponse("Successfully created issues", Len(r.nodes), Undef, r.nodes)

\* ---------------------------------------------------------------- bulkUpdateIssues
BulkUpdateIssuesArgs ==
  {[w EXCEPT !["update"] = u] :
     w \in WithRequired({"issueIds"}, ListVals), u \in {Undef, Null, Obj}}

BulkUpdateIssuesPre(c, a) ==
  FirstError(<<VerifyAuth(c),
               ValidateRequiredParams(a, {"issueIds", "update"}),
               IF IsArray(a["issueIds"]) THEN NoError
               ELSE Err("ValidationError",
                        "IssueIds parameter must be an array", Undef, {})>>)

BulkUpdateIssuesCall(a) ==
  Call("updateIssues", NoArgs, a["issueIds"], a["update"], NoFilter, Undef,
       Undef, Undef)

BulkUpdateIssuesPost(a, r) ==
  IF r.kind = "malformed" THEN TypeError
  ELSE IF ~r.success
       THEN Err("BackendError", "Failed to update issues", Undef, {})
       ELSE NoError

\* variant: the count is taken from the backend's payload
UpdatedCount_FromBackend(a, r) == r.changed

\* const updatedCount = args.issueIds.length
UpdatedCount(a, r) == Len(a["issueIds"].s)

BulkUpdateIssuesResult(a, r) ==
  CreateResponse("Successfully updated issues", UpdatedCount(a, r), Undef, <<>>)

\* ---------------------------------------------------------------- searchIssues
SearchIssuesPre(c, a) == VerifyAuth(c)

\* variant: the query is forwarded whether or not an identifier is given
BuildSearchFilter_NoPrecedence(a) ==
  [k \in FilterKeys |->
     CASE k = "identifier" ->
            IF Truthy(a["filter.identifier"])
            THEN InListOf(a["filter.identifier"]) ELSE Absent
       [] k = "search" ->
            IF Truthy(a["query"]) THEN Verbatim(a["query"]) ELSE Absent
       [] k = "project" ->
            IF Truthy(a["filter.project.id.eq"])
            THEN IdEq(a["filter.project.id.eq"]) ELSE Absent
       [] k = "team" ->
            IF Truthy(a["teamIds"]) THEN IdIn(a["teamIds"]) ELSE Absent
       [] k = "assignee" ->
            IF Truthy(a["assigneeIds"]) THEN IdIn(a["assigneeIds"]) ELSE Absent
       [] k = "state" ->
            IF Truthy(a["states"]) THEN NameIn(a["states"]) ELSE Absent
       [] k = "priority" ->
            IF a["priority"] # Undef /\ a["priority"] # Null
            THEN Eq(ToNumber(a["priority"])) ELSE Absent]

\* variant: priority is tested by truthiness like the other inputs
BuildSearchFilter_FalsyPriority(a) ==
  [k \in FilterKeys |->
     CASE k = "identifier" ->
            IF Truthy(a["filter.identifier"])
            THEN InListOf(a["filter.identifier"]) ELSE Absent
       [] k = "search" ->
            IF ~Truthy(a["filter.identifier"]) /\ Truthy(a["query"])
            THEN Verbatim(a["query"]) ELSE Absent
       [] k = "project" ->
            IF Truthy(a["filter.project.id.eq"])
            THEN IdEq(a["filter.project.id.eq"]) ELSE Absent
       [] k = "team" ->
            IF Truthy(a["teamIds"]) THEN IdIn(a["teamIds"]) ELSE Absent
       [] k = "assignee" ->
            IF Truthy(a["assigneeIds"]) THEN IdIn(a["assigneeIds"]) ELSE Absent
       [] k = "state" ->
            IF Truthy(a["states"]) THEN NameIn(a["states"]) ELSE Absent
       [] k = "priority" ->
            IF Truthy(a["priority"])
            THEN Eq(ToNumber(a["priority"])) ELSE Absent]

\* the filter object built from the optional inputs
BuildSearchFilter(a) ==
  [k \in FilterKeys |->
     CASE k = "identifier" ->
            IF Truthy(a["filter.identifier"])
            THEN InListOf(a["filter.identifier"]) ELSE Absent
       [] k = "search" ->
            IF ~Truthy(a["filter.identifier"]) /\ Truthy(a["query"])
            THEN Verbatim(a["query"]) ELSE Absent
       [] k = "project" ->
            IF Truthy(a["filter.project.id.eq"])
            THEN IdEq(a["filter.project.id.eq"]) ELSE Absent
       [] k = "team" ->
            IF Truthy(a["teamIds"]) THEN IdIn(a["teamIds"]) ELSE Absent
       [] k = "assignee" ->
            IF Truthy(a["assigneeIds"]) THEN IdIn(a["assigneeIds"]) ELSE Absent
       [] k = "state" ->
            IF Truthy(a["states"]) THEN NameIn(a["states"]) ELSE Absent
       [] k = "priority" ->
            IF a["priority"] # Undef /\ a["priority"] # Null
            THEN Eq(ToNumber(a["priority"])) ELSE Absent]

SearchIssuesCall(a) ==
  Call("searchIssues", NoArgs, Undef, Undef, BuildSearchFilter(a),
       OrElse(a["first"], Num(50)), a["after"], OrElse(a["orderBy"], UpdatedAt))

SearchIssuesPost(a, r) == NoError

SearchIssuesResult(a, r) == CreateJsonResponse("result", <<>>, r)

\* ---------------------------------------------------------------- searchIssuesByIdentifier
SearchIssuesByIdentifierArgs == WithRequired({"identifiers"}, ListVals)

SearchIssuesByIdentifierPre(c, a) ==
  FirstError(<<VerifyAuth(c),
               ValidateRequiredParams(a, {"identifiers"}),
               IF IsArray(a["identifiers"]) THEN NoError
               ELSE Err("ValidationError",
                        "Identifiers parameter must be an array", Undef, {})>>)

SearchIssuesByIdentifierCall(a) ==
  Call("searchIssues", NoArgs, Undef, Undef,
       [NoFilter EXCEPT !["identifier"] = In(a["identifiers"])],
       Num(100), Undef, UpdatedAt)

SearchIssuesByIdentifierPost(a, r) == NoError

SearchIssuesByIdentifierResult(a, r) == CreateJsonResponse("result", <<>>, r)

\* ---------------------------------------------------------------- getIssue
GetIssueArgs == WithRequired({"identifier"}, RequiredVals \cup {Str(<<"b">>)})

GetIssuePre(c, a) ==
  FirstError(<<VerifyAuth(c), ValidateRequiredParams(a, {"identifier"})>>)

GetIssueCall(a) ==
  Call("searchIssues", NoArgs, Undef, Undef,
       [NoFilter EXCEPT !["identifier"] = InListOf(a["identifier"])],
       Num(1), Undef, UpdatedAt)

GetIssuePost(a, r) ==
  IF r.kind = "malformed" THEN TypeError
  ELSE IF ~r.hasPayload \/ Len(r.nodes) = 0
       THEN Err("NotFoundError", "Issue not found", a["identifier"], {})
       ELSE NoError

\* variant: the last node is returned instead of the first
GetIssueResult_LastNode(a, r) ==
  CreateJsonResponse("issue", <<r.nodes[Len(r.nodes)]>>, NoReply)

GetIssueResult(a, r) == CreateJsonResponse("issue", <<r.nodes[1]>>, NoReply)

\* ---------------------------------------------------------------- deleteIssue
DeleteIssueArgs == WithRequired({"id"}, RequiredVals \cup {Str(<<"b">>)})

DeleteIssuePre(c, a) ==
  FirstError(<<VerifyAuth(c), ValidateRequiredParams(a, {"id"})>>)

DeleteIssueCall(a) ==
  Call("deleteIssue", NoArgs, a["id"], Undef, NoFilter, Undef, Undef, Undef)

DeleteIssuePost(a, r) ==
  IF r.kind = "malformed" THEN TypeError
  ELSE IF ~r.success
       THEN Err("BackendError", "Failed to delete issue", Undef, {})
       ELSE NoError

DeleteIssueResult(a, r) ==
  CreateResponse("Successfully deleted issue", 0, a["id"], <<>>)

\* ---------------------------------------------------------------- editIssue
optionalFields == EditFields
numericFields == {"priority", "estimate", "sortOrder"}

\* variant: the numeric fields are copied without Number()
BuildUpdateInput_NoCoercion(a) ==
  [f \in AllFields |->
     IF f \in optionalFields /\ a[f] # Undef /\ a[f] # Null
     THEN a[f]
     ELSE Undef]

\* the updateInput object: keys holding Undef are not keys of it
BuildUpdateInput(a) ==
  [f \in AllFields |->
     IF f \in optionalFields /\ a[f] # Undef /\ a[f] # Null
     THEN IF f \in numericFields THEN ToNumber(a[f]) ELSE a[f]
     ELSE Undef]

\* Object.keys(updateInput)
Keys(obj) == {f \in DOMAIN obj : obj[f] # Undef}

\* variant: the required field is validated before the client is verified
EditIssuePre_ValidateFirst(c, a) ==
  FirstError(<<ValidateRequiredParams(a, {"issueId"}),
               VerifyAuth(c),
               IF Cardinality(Keys(BuildUpdateInput(a))) = 0
               THEN Err("ValidationError",
                        "No fields provided to update for issue",
                        a["issueId"], {})
               ELSE NoError>>)

\* variant: an empty updateInput is sent all the same
EditIssuePre_NoEmptyCheck(c, a) ==
  FirstError(<<VerifyAuth(c), ValidateRequiredParams(a, {"issueId"})>>)

EditIssuePre(c, a) ==
  FirstError(<<VerifyAuth(c),
               ValidateRequiredParams(a, {"issueId"}),
               IF Cardinality(Keys(BuildUpdateInput(a))) = 0
               THEN Err("ValidationError",
                        "No fields provided to update for issue",
                        a["issueId"], {})
               ELSE NoError>>)

EditIssueCall(a) ==
  Call("updateIssue", BuildUpdateInput(a), a["issueId"], Undef, NoFilter,
       Undef, Undef, Undef)

EditIssuePost(a, r) ==
  IF r.kind = "malformed" \/ ~r.success \/ ~r.hasPayload
  THEN Err("BackendError", "Failed to update issue", a["issueId"], {})
  ELSE NoError

EditIssueResult(a, r) == CreateJsonResponse("issueUpdate", r.nodes, NoReply)

\* ---------------------------------------------------------------- steps
\* How an invocation ends once the catch block has run: the catch block calls
\* handleError and returns nothing itself, so the promise is rejected when
\* handleError throws and resolves to undefined when it returns.
CatchEndings == {"rejected", "undefined"}

Init ==
  /\ hasClient \in BOOLEAN
  /\ pc = "idle"
  /\ op = "none"
  /\ args = NoArgs
  /\ calls = <<>>
  /\ reply = NoReply
  /\ failure = NoFailure
  /\ value = NoEnvelope
  /\ ending = "pending"

\* try { ... } catch (error) { this.handleError(error, operation); }
Catch(error, operation) ==
  /\ pc' = "done"
  /\ failure' = HandleError(error, operation)
  /\ value' = NoEnvelope
  /\ ending' \in CatchEndings

\* return this.createResponse(...) / this.createJsonResponse(...)
Return(envelope) ==
  /\ pc' = "done"
  /\ failure' = NoFailure
  /\ value' = envelope
  /\ ending' = "returned"

\* the handler from its entry to its await (or to the throw before it)
Begin(o, operation, a, pre, call) ==
  /\ pc = "idle"
  /\ op' = o
  /\ args' = a
  /\ UNCHANGED <<hasClient, reply>>
  /\ IF pre # NoError
     THEN /\ calls' = calls
          /\ Catch(pre, operation)
     ELSE /\ calls' = Append(calls, call)
          /\ pc' = "awaiting"
          /\ UNCHANGED <<failure, value, ending>>

\* the handler from the settling of its await to its end
Resume(o, operation, r, post, result) ==
  /\ pc = "awaiting"
  /\ op = o
  /\ reply' = r
  /\ UNCHANGED <<hasClient, op, args, calls>>
  /\ IF r.kind = "throw" THEN Catch(ClientError, operation)
     ELSE IF post # NoError THEN Catch(post, operation)
     ELSE Return(result)

\* ---------------------------------------------------------------- handlers
handleCreateIssue ==
  /\ pc = "idle"
  /\ \E a \in CreateIssueArgs :
       Begin("createIssue", "create issue", a, CreateIssuePre(hasClient, a), CreateIssueCall(a))

resumeCreateIssue ==
  /\ pc = "awaiting" /\ op = "createIssue"
  /\ \E r \in IssueReplies :
       Resume("createIssue", "create issue", r, CreateIssuePost(args, r), CreateIssueResult(args, r))

handleCreateIssues ==
  /\ pc = "idle"
  /\ \E a \in CreateIssuesArgs :
       Begin("createIssues", "create issues", a, CreateIssuesPre(hasClient, a), CreateIssuesCall(a))

resumeCreateIssues ==
  /\ pc = "awaiting" /\ op = "createIssues"
  /\ \E r \in BatchReplies :
       Resume("createIssues", "create issues", r, CreateIssuesPost(args, r), CreateIssuesResult(args, r))

handleBulkUpdateIssues ==
  /\ pc = "idle"
  /\ \E a \in BulkUpdateIssuesArgs :
       Begin("bulkUpdateIssues", "update issues", a, BulkUpdateIssuesPre(hasClient, a), BulkUpdateIssuesCall(a))

resumeBulkUpdateIssues ==
  /\ pc = "awaiting" /\ op = "bulkUpdateIssues"
  /\ \E r \in BulkReplies :
       Resume("bulkUpdateIssues", "update issues", r, BulkUpdateIssuesPost(args, r), BulkUpdateIssuesResult(args, r))

handleSearchIssues ==
  /\ pc = "idle"
  /\ \E S \in Choices(SearchFields, MaxSetFields) :
       \E a \in Assign(NoArgs, S) :
         Begin("searchIssues", "search issues", a, SearchIssuesPre(hasClient, a), SearchIssuesCall(a))

resumeSearchIssues ==
  /\ pc = "awaiting" /\ op = "searchIssues"
  /\ \E r \in SearchReplies :
       Resume("searchIssues", "search issues", r, SearchIssuesPost(args, r), SearchIssuesResult(args, r))

handleSearchIssuesByIdentifier ==
  /\ pc = "idle"
  /\ \E a \in SearchIssuesByIdentifierArgs :
       Begin("searchIssuesByIdentifier", "search issues by identifier", a, SearchIssuesByIdentifierPre(hasClient, a), SearchIssuesByIdentifierCall(a))

resumeSearchIssuesByIdentifier ==
  /\ pc = "awaiting" /\ op = "searchIssuesByIdentifier"
  /\ \E r \in SearchReplies :
       Resume("searchIssuesByIdentifier", "search issues by identifier", r, SearchIssuesByIdentifierPost(args, r), SearchIssuesByIdentifierResult(args, r))

handleGetIssue ==
  /\ pc = "idle"
  /\ \E a \in GetIssueArgs :
       Begin("getIssue", "get issue", a, GetIssuePre(hasClient, a), GetIssueCall(a))

resumeGetIssue ==
  /\ pc = "awaiting" /\ op = "getIssue"
  /\ \E r \in SearchReplies :
       Resume("getIssue", "get issue", r, GetIssuePost(args, r), GetIssueResult(args, r))

handleDeleteIssue ==
  /\ pc = "idle"
  /\ \E a \in DeleteIssueArgs :
       Begin("deleteIssue", "delete issue", a, DeleteIssuePre(hasClient, a), DeleteIssueCall(a))

resumeDeleteIssue ==
  /\ pc = "awaiting" /\ op = "deleteIssue"
  /\ \E r \in DeleteReplies :
       Resume("deleteIssue", "delete issue", r, DeleteIssuePost(args, r), DeleteIssueResult(args, r))

handleEditIssue ==
  /\ pc = "idle"
  /\ \E i \in RequiredVals, S \in Choices(EditFields, MaxSetFields) :
       \E a \in Assign([NoArgs EXCEPT !["issueId"] = i], S) :
         Begin("editIssue", "edit issue", a, EditIssuePre(hasClient, a), EditIssueCall(a))

resumeEditIssue ==
  /\ pc = "awaiting" /\ op = "editIssue"
  /\ \E r \in IssueReplies :
       Resume("editIssue", "edit issue", r, EditIssuePost(args, r), EditIssueResult(args, r))

\* the invocation is over; the handler keeps nothing of it
NextInvocation ==
  /\ pc = "done"
  /\ pc' = "idle"
  /\ op' = "none"
  /\ args' = NoArgs
  /\ calls' = <<>>
  /\ reply' = NoReply
  /\ failure' = NoFailure
  /\ value' = NoEnvelope
  /\ ending' = "pending"
  /\ UNCHANGED hasClient

Next ==
  \/ handleCreateIssue
  \/ resumeCreateIssue
  \/ handleCreateIssues
  \/ resumeCreateIssues
  \/ handleBulkUpdateIssues
  \/ resumeBulkUpdateIssues
  \/ handleSearchIssues
  \/ resumeSearchIssues
  \/ handleSearchIssuesByIdentifier
  \/ resumeSearchIssuesByIdentifier
  \/ handleGetIssue
  \/ resumeGetIssue
  \/ handleDeleteIssue
  \/ resumeDeleteIssue
  \/ handleEditIssue
  \/ resumeEditIssue
  \/ NextInvocation

Spec == Init /\ [][Next]_vars

\* ---------------------------------------------------------------- properties
Invoked == pc # "idle"
Called == calls # <<>>
Given(v) == v # Undef /\ v # Null
FailedWith(type) ==
  /\ pc = "done"
  /\ failure.error.type = type
  /\ value = NoEnvelope
  /\ ending # "returned"

\* C1: without an authenticated client every operation, whatever its
\* arguments, fails with an AuthError and calls no method of the client.
C1_NoClientMeansAuthError ==
  (Invoked /\ ~hasClient) => (FailedWith("AuthError") /\ ~Called)

C1_Witness ==
  /\ ~hasClient
  /\ op = "editIssue"
  /\ args["issueId"] = Undef
  /\ FailedWith("AuthError")
  /\ ~Called

\* C2: every invocation ends by returning a response envelope, success or
\* failure; no error leaves the handler any other way.
C2_EveryInvocationReturnsAnEnvelope ==
  pc = "done" => (ending = "returned" /\ value.kind \in {"text", "json", "failure"})

MutatingOps ==
  {"createIssue", "createIssues", "bulkUpdateIssues", "deleteIssue", "editIssue"}

BackendReportsFailure ==
  /\ reply.kind = "result"
  /\ \/ ~reply.success
     \/ op \in {"createIssue", "editIssue"} /\ ~reply.hasPayload

\* C3: a mutating operation whose backend reply has success=false (or, for
\* createIssue and editIssue, success=true without the issue) ends in a
\* BackendError and never in a success result.
C3_BackendFailureIsBackendError ==
  (pc = "done" /\ op \in MutatingOps /\ BackendReportsFailure)
    => FailedWith("BackendError")

C3_Witness ==
  /\ pc = "done"
  /\ op = "createIssue"
  /\ reply.kind = "result" /\ reply.success /\ ~reply.hasPayload
  /\ FailedWith("BackendError")

\* C4: a successful bulk update reports as its count the length of the
\* issueIds list the caller passed, whatever the backend says it changed.
C4_UpdatedCountIsRequestedCount ==
  (pc = "done" /\ op = "bulkUpdateIssues" /\ reply.kind = "result" /\ reply.success)
    => /\ ending = "returned"
       /\ value.kind = "text"
       /\ value.count = Len(args["issueIds"].s)

C4_Witness ==
  /\ pc = "done"
  /\ op = "bulkUpdateIssues"
  /\ args["issueIds"] = Arr(<<"A", "B", "C">>)
  /\ reply.success /\ reply.changed = 1
  /\ value.count = 3

SearchCall == Invoked /\ op = "searchIssues" /\ Called

\* C5 as stated: any given identifier filter, the empty string included,
\* becomes identifier.in=[X] and suppresses the search key; the query is the
\* search key only when no identifier is given.
C5_AnyGivenIdentifierOverridesQuery ==
  SearchCall =>
    LET id == args["filter.identifier"]
        f == calls[1].filter
    IN /\ Given(id) => (f["identifier"] = InListOf(id) /\ f["search"] = Absent)
       /\ f["search"] # Absent
            => (~Given(id) /\ f["search"] = Verbatim(args["query"]))

\* C5 amended: a non-empty identifier filter becomes identifier.in=[X] and
\* suppresses the search key for every query; the query is forwarded verbatim
\* as the search key only when no non-empty identifier is given.
C5_NonEmptyIdentifierOverridesQuery ==
  SearchCall =>
    LET id == args["filter.identifier"]
        f == calls[1].filter
    IN /\ (Given(id) /\ id # Str(<<>>))
            => (f["identifier"] = InListOf(id) /\ f["search"] = Absent)
       /\ f["search"] # Absent
            => /\ ~(Given(id) /\ id # Str(<<>>))
               /\ f["search"] = Verbatim(args["query"])

C5_Witness ==
  /\ SearchCall
  /\ args["filter.identifier"] = Str(<<"a">>)
  /\ args["query"] = Str(<<"a">>)
  /\ calls[1].filter["identifier"] = InListOf(Str(<<"a">>))
  /\ calls[1].filter["search"] = Absent

\* C6 as stated: each optional input of searchIssues contributes its
\* constraint exactly when it is neither undefined nor null (the query when,
\* besides, no identifier is given).
C6_PresenceIsNotNullOrUndefined ==
  SearchCall =>
    LET f == calls[1].filter
    IN /\ f["identifier"] # Absent <=> Given(args["filter.identifier"])
       /\ f["search"] # Absent
            <=> (Given(args["query"]) /\ ~Given(args["filter.identifier"]))
       /\ f["project"] # Absent <=> Given(args["filter.project.id.eq"])
       /\ f["team"] # Absent <=> Given(args["teamIds"])
       /\ f["assignee"] # Absent <=> Given(args["assigneeIds"])
       /\ f["state"] # Absent <=> Given(args["states"])
       /\ f["priority"] # Absent <=> Given(args["priority"])

NonEmpty(v) == Given(v) /\ v # Str(<<>>)

\* C6 amended: priority (0 included) and the lists teamIds, assigneeIds and
\* states (empty lists included) contribute exactly when neither undefined
\* nor null; the text inputs (identifier, project id, query) contribute
\* exactly when they are non-empty, the query only without an identifier.
C6_PresenceByInputKind ==
  SearchCall =>
    LET f == calls[1].filter
    IN /\ f["priority"] # Absent <=> Given(args["priority"])
       /\ args["priority"] = Num(0) => f["priority"] = Eq(Num(0))
       /\ f["team"] # Absent <=> Given(args["teamIds"])
       /\ f["assignee"] # Absent <=> Given(args["assigneeIds"])
       /\ f["state"] # Absent <=> Given(args["states"])
       /\ f["identifier"] # Absent <=> NonEmpty(args["filter.identifier"])
       /\ f["project"] # Absent <=> NonEmpty(args["filter.project.id.eq"])
       /\ f["search"] # Absent
            <=> (NonEmpty(args["query"]) /\ ~NonEmpty(args["filter.identifier"]))

C6_Witness ==
  /\ SearchCall
  /\ args["priority"] = Num(0)
  /\ args["teamIds"] = Arr(<<>>)
  /\ calls[1].filter["priority"] = Eq(Num(0))
  /\ calls[1].filter["team"] = IdIn(Arr(<<>>))

EditCall == Invoked /\ op = "editIssue" /\ Called

\* C7: the patch sent to updateIssue has exactly the allow-listed fields
\* whose input is neither undefined nor null; priority, estimate and
\* sortOrder are numbers ("2" becomes 2), every other field is the input
\* unchanged, and issueId is no key of the patch.
C7_PatchIsAllowListedAndCoerced ==
  EditCall =>
    LET p == calls[1].input
    IN /\ calls[1].method = "updateIssue"
       /\ calls[1].target = args["issueId"]
       /\ Keys(p) = {f \in EditFields : Given(args[f])}
       /\ "issueId" \notin Keys(p)
       /\ \A f \in Keys(p) :
            IF f \in {"priority", "estimate", "sortOrder"}
            THEN /\ p[f].t = "number"
                 /\ args[f].t = "number" => p[f] = args[f]
                 /\ args[f] = Str(<<"2">>) => p[f] = Num(2)
                 /\ args[f] = Str(<<"1", "0">>) => p[f] = Num(10)
            ELSE p[f] = args[f]

C7_Witness ==
  /\ EditCall
  /\ args["priority"] = Str(<<"2">>)
  /\ args["title"] = Str(<<>>)
  /\ calls[1].input["priority"] = Num(2)
  /\ calls[1].input["title"] = Str(<<>>)
  /\ Keys(calls[1].input) = {"priority", "title"}

NothingToUpdate ==
  /\ op = "editIssue"
  /\ Given(args["issueId"])
  /\ \A f \in EditFields : ~Given(args[f])

\* C8: editIssue with an issueId and no allow-listed field holding a value
\* calls no client method and (with a client available) fails with a
\* validation error whose message names the issueId.
C8_NothingToUpdateIsValidationError ==
  (Invoked /\ NothingToUpdate) =>
    /\ pc = "done"
    /\ ~Called
    /\ hasClient => (FailedWith("ValidationError")
                     /\ failure.error.ref = args["issueId"]
                     /\ failure.error.text = "No fields provided to update for issue")

C8_Witness ==
  /\ hasClient
  /\ Invoked /\ NothingToUpdate
  /\ args["title"] = Null
  /\ FailedWith("ValidationError")
  /\ failure.error.ref = Str(<<"a">>)

\* C9: getIssue searches with identifier in [identifier] and page size 1; no
\* node (empty or missing list) is a NotFoundError naming the identifier, and
\* otherwise the first node is returned as the issue.
C9_GetIssueFirstNodeOrNotFound ==
  (Invoked /\ op = "getIssue" /\ Called) =>
    /\ calls[1].method = "searchIssues"
    /\ calls[1].filter
         = [NoFilter EXCEPT !["identifier"] = InListOf(args["identifier"])]
    /\ calls[1].first = Num(1)
    /\ (pc = "done" /\ reply.kind = "result")
         => IF reply.hasPayload /\ Len(reply.nodes) >= 1
            THEN /\ ending = "returned"
                 /\ value.kind = "json"
                 /\ value.nodes = <<reply.nodes[1]>>
            ELSE /\ FailedWith("NotFoundError")
                 /\ failure.error.ref = args["identifier"]

C9_Witness ==
  /\ pc = "done"
  /\ op = "getIssue"
  /\ reply.nodes = <<"N2", "N1">>
  /\ value.nodes = <<"N2">>

RequiredOf(o) ==
  CASE o = "createIssue" -> {"title", "description", "teamId"}
    [] o = "createIssues" -> {"issues"}
    [] o = "bulkUpdateIssues" -> {"issueIds", "update"}
    [] o = "searchIssuesByIdentifier" -> {"identifiers"}
    [] o = "getIssue" -> {"identifier"}
    [] o = "deleteIssue" -> {"id"}
    [] o = "editIssue" -> {"issueId"}
    [] OTHER -> {}

ListOf(o) ==
  CASE o = "createIssues" -> {"issues"}
    [] o = "bulkUpdateIssues" -> {"issueIds"}
    [] o = "searchIssuesByIdentifier" -> {"identifiers"}
    [] OTHER -> {}

InvalidArgs ==
  \/ \E f \in RequiredOf(op) : ~Given(args[f])
  \/ \E f \in ListOf(op) : args[f].t # "array"

C10_ValidatedBeforeCall ==
  /\ (Invoked /\ hasClient /\ InvalidArgs)
       => (FailedWith("ValidationError") /\ ~Called)
  /\ Len(calls) <= 1

C10_NoCallAfterSettling ==
  (reply # NoReply \/ failure # NoFailure) => Len(calls') <= Len(calls)

\* C10: with a required input missing, or a list input that is no array, the
\* operation fails with a ValidationError before any client call; an
\* invocation calls the client at most once and never again once the call
\* has settled or the invocation has failed.
C10_ValidationPrecedesTheSingleCall ==
  []C10_ValidatedBeforeCall /\ [][C10_NoCallAfterSettling]_vars

C10_Witness ==
  /\ hasClient
  /\ op = "bulkUpdateIssues"
  /\ args["issueIds"] = Str(<<"a">>)
  /\ args["update"] = Obj
  /\ FailedWith("ValidationError")
  /\ ~Called
====
